---- MODULE Spec2Model ----
(***************************************************************************)
(* A model of examples/named_entity_recognition/ner_wikigold_transformer   *)
(* .ipynb: the notebook's code cells executed top to bottom by one kernel. *)
(* The kernel's global namespace is the variable ns; every external call   *)
(* (wikigold.load_dataset, TokenClassifier, fit, predict, ...) is a call   *)
(* event followed by a return or a raise, its result chosen from a small   *)
(* set.  The report text is a sequence of characters, and the metrics cell *)
(* is modelled by what str.split and float do to those characters.         *)
(***************************************************************************)
EXTENDS Integers, Sequences, FiniteSets, TLC

VARIABLES
    pc,          \* the statement the kernel executes next, "done" or "halted"
    ns,          \* the kernel's global namespace: bound name -> value
    running,     \* the external calls that have been entered and not left
    events,      \* history: every call, return, raise and local statement
    calls,       \* history: step -> the keyword arguments it was called with
    stdout,      \* what print() wrote
    scrapbook,   \* what sb.glue() recorded
    cuda,        \* what torch.cuda.is_available() answered in the config cell
    failed_at    \* the step that raised, "" while nothing has raised

vars == <<pc, ns, running, events, calls, stdout, scrapbook, cuda, failed_at>>

\* ------------------------------------------------------------------ bounds

\* the longest report, in rows, that classification_report returns
MaxRows == 2

\* ---------------------------------------------------- decimals and strings

\* n / 10^k with trailing zeros of the fraction removed, so that equal
\* numbers have equal representations (1 and 1.0, 0.5 and 0.50)
RECURSIVE Norm(_, _)
Norm(n, k) == IF k > 0 /\ n % 10 = 0 THEN Norm(n \div 10, k - 1) ELSE <<n, k>>

Digits == <<"0", "1", "2", "3", "4", "5", "6", "7", "8", "9">>

IsDigit(c) == \E i \in 1..10 : Digits[i] = c

DigitVal(c) == (CHOOSE i \in 1..10 : Digits[i] = c) - 1

\* Python's whitespace, as far as the report's alphabet goes
Whitespace == {" ", "\n", "\t"}

RECURSIVE Concat(_)
Concat(ss) == IF ss = <<>> THEN <<>> ELSE Head(ss) \o Concat(Tail(ss))

\* str.split(sep) for a one-character sep: the pieces between separators,
\* empty pieces kept, always at least one piece
RECURSIVE SplitOn(_, _)
SplitOn(s, sep) ==
    IF \A i \in 1..Len(s) : s[i] # sep
    THEN <<s>>
    ELSE LET i == CHOOSE j \in 1..Len(s) :
                      s[j] = sep /\ \A l \in 1..(j - 1) : s[l] # sep
         IN  <<SubSeq(s, 1, i - 1)>> \o SplitOn(SubSeq(s, i + 1, Len(s)), sep)

\* str.split(): the maximal runs of non-whitespace characters, in order
RECURSIVE SplitWhitespace(_)
SplitWhitespace(s) ==
    IF s = <<>> THEN <<>>
    ELSE IF Head(s) \in Whitespace THEN SplitWhitespace(Tail(s))
    ELSE LET stops == {j \in 1..Len(s) : s[j] \in Whitespace}
             n == IF stops = {} THEN Len(s)
                  ELSE (CHOOSE j \in stops : \A l \in stops : j <= l) - 1
         IN  <<SubSeq(s, 1, n)>> \o SplitWhitespace(SubSeq(s, n + 1, Len(s)))

RECURSIVE ToNat(_)
ToNat(ds) == IF ds = <<>> THEN 0
             ELSE 10 * ToNat(SubSeq(ds, 1, Len(ds) - 1)) + DigitVal(ds[Len(ds)])

\* float(tok) succeeds on digits with at most one point and at least one
\* digit; signs, exponents, inf and nan do not occur in a report of digits=2
FloatOk(tok) ==
    LET dots == {i \in 1..Len(tok) : tok[i] = "."}
    IN  /\ Cardinality(dots) <= 1
        /\ \A i \in 1..Len(tok) : i \in dots \/ IsDigit(tok[i])
        /\ \E i \in 1..Len(tok) : IsDigit(tok[i])

Float(tok) ==
    LET dots == {i \in 1..Len(tok) : tok[i] = "."}
        d == IF dots = {} THEN Len(tok) + 1 ELSE CHOOSE i \in dots : TRUE
        whole == SubSeq(tok, 1, d - 1)
        frac == SubSeq(tok, d + 1, Len(tok))
    IN  Norm(ToNat(whole \o frac), Len(frac))

RECURSIVE NatToChars(_)
NatToChars(n) == IF n < 10 THEN <<Digits[n + 1]>>
                 ELSE NatToChars(n \div 10) \o <<Digits[(n % 10) + 1]>>

\* '{:.2f}' of the number h / 100
FormatFixed2(h) ==
    NatToChars(h \div 100) \o <<".", Digits[((h \div 10) % 10) + 1], Digits[(h % 10) + 1]>>

\* -------------------------------------------- what the external calls return

MacroAvg == <<"m", "a", "c", "r", "o", " ", "a", "v", "g">>

AvgTotal == <<"a", "v", "g", " ", "/", " ", "t", "o", "t", "a", "l">>

\* <<precision, recall, f1>> in hundredths and the support count
RowMetrics == { <<25, 50, 75, 8>>, <<100, 0, 5, 12>> }

\* one row of the report: the label, then the first `fields` of precision,
\* recall, f1 (two digits each, digits=2) and support, separated by runs of
\* spaces; a complete row has four fields
FormatRow(label, m, fields) ==
    LET cell(i) == <<" ", " ">> \o (IF i = 4 THEN NatToChars(m[4]) ELSE FormatFixed2(m[i]))
    IN  <<" ", " ">> \o label \o Concat([i \in 1..fields |-> cell(i)])

\* the rows of a report, as <<label, metrics, fields>>: a class row, the
\* average row of seqeval with either metrics, the total row of its older
\* releases, and an average row cut short after one or two fields
ReportRows ==
    { <<<<"P", "E", "R">>, <<25, 50, 75, 8>>, 4>>,
      <<AvgTotal, <<25, 50, 75, 8>>, 4>>,
      <<MacroAvg, <<25, 50, 75, 8>>, 1>>,
      <<MacroAvg, <<25, 50, 75, 8>>, 2>> }
        \cup {<<MacroAvg, m, 4>> : m \in RowMetrics}

\* the lines a report is made of: the rows and the empty line between blocks
ReportLines == {FormatRow(r[1], r[2], r[3]) : r \in ReportRows} \cup {<<>>}

\* the lines joined, each ended by a newline; the last newline is dropped
\* when the formatter separates lines instead of ending them
JoinLines(lines, trailing) ==
    LET text == Concat([i \in 1..Len(lines) |-> lines[i] \o <<"\n">>])
    IN  IF trailing \/ text = <<>> THEN text ELSE SubSeq(text, 1, Len(text) - 1)

\* the texts classification_report may return
Reports ==
    { JoinLines(lines, trailing) :
        lines \in UNION {[1..n -> ReportLines] : n \in 0..MaxRows},
        trailing \in BOOLEAN }

\* label string -> id, as load_dataset builds it from the tags of the data
LabelMaps ==
    { ("O" :> 0) @@ ("PER" :> 1),
      ("O" :> 0) @@ ("PER" :> 1) @@ ("LOC" :> 2) }

\* the label ids of the test sentences, one sequence per sentence
TestLabelIds == << <<0, 1>>, <<1>> >>

\* the label ids predict() may give the same sentences
Predictions == { << <<0, 1>>, <<1>> >>, << <<0, 0>>, <<0>> >> }

\* ids back to label strings through a label map, sentence by sentence
Decode(label_map, ids) ==
    [i \in 1..Len(ids) |->
        [j \in 1..Len(ids[i]) |->
            CHOOSE l \in DOMAIN label_map : label_map[l] = ids[i][j]]]

\* the names the first and the second TemporaryDirectory() hand out
TmpNames == <<"/tmp/tmpa", "/tmp/tmpb">>

\* ---------------------------------------------------- the configuration cell

\* the names the QUICK_RUN cell and the configuration cell bind
ConfigNames ==
    { "QUICK_RUN", "TEST_DATA_FRACTION", "TRAIN_SAMPLE_RATIO", "TEST_SAMPLE_RATIO",
      "NUM_TRAIN_EPOCHS", "DATA_PATH", "CACHE_DIR", "RANDOM_SEED", "MODEL_NAME",
      "DO_LOWER_CASE", "MAX_SEQ_LENGTH", "TRAILING_PIECE_TAG", "DEVICE", "BATCH_SIZE" }

\* the values of a full run, assigned before the QUICK_RUN test
FullRunValues ==
    [ TEST_DATA_FRACTION |-> Norm(3, 1),
      TRAIN_SAMPLE_RATIO |-> Norm(1, 0),
      TEST_SAMPLE_RATIO  |-> Norm(1, 0),
      NUM_TRAIN_EPOCHS   |-> 5 ]

QuickRunOverrides_epochs_kept(quick_run) ==
    IF quick_run
    THEN [ TRAIN_SAMPLE_RATIO |-> Norm(1, 1), TEST_SAMPLE_RATIO |-> Norm(1, 1) ]
    ELSE [n \in {} |-> 0]

QuickRunOverrides_fraction_too(quick_run) ==
    IF quick_run
    THEN [ TEST_DATA_FRACTION |-> Norm(1, 1),
           TRAIN_SAMPLE_RATIO |-> Norm(1, 1),
           TEST_SAMPLE_RATIO  |-> Norm(1, 1),
           NUM_TRAIN_EPOCHS   |-> 1 ]
    ELSE [n \in {} |-> 0]

\* if QUICK_RUN: the three assignments of the branch
QuickRunOverrides(quick_run) ==
    IF quick_run
    THEN [ TRAIN_SAMPLE_RATIO |-> Norm(1, 1),
           TEST_SAMPLE_RATIO  |-> Norm(1, 1),
           NUM_TRAIN_EPOCHS   |-> 1 ]
    ELSE [n \in {} |-> 0]

BatchSize_swapped(cuda_available) == IF cuda_available THEN 8 ELSE 16

\* if torch.cuda.is_available(): BATCH_SIZE = 16, else: BATCH_SIZE = 8
BatchSize(cuda_available) == IF cuda_available THEN 16 ELSE 8

\* the paths, the seed and the model configuration, assigned after the test
ModelConfiguration(cuda_available, data_path, cache_dir) ==
    [ DATA_PATH          |-> data_path,
      CACHE_DIR          |-> cache_dir,
      RANDOM_SEED        |-> 100,
      MODEL_NAME         |-> "bert-base-cased",
      DO_LOWER_CASE      |-> FALSE,
      MAX_SEQ_LENGTH     |-> 200,
      TRAILING_PIECE_TAG |-> "X",
      DEVICE             |-> "cuda",
      BATCH_SIZE         |-> BatchSize(cuda_available) ]

\* the bindings the configuration cell leaves, given QUICK_RUN, the answer
\* of torch.cuda.is_available() and the two temporary directory names
Configuration(quick_run, cuda_available, data_path, cache_dir) ==
    QuickRunOverrides(quick_run) @@ FullRunValues
        @@ ModelConfiguration(cuda_available, data_path, cache_dir)

\* ------------------------------------------------- expressions and arguments

\* an argument expression: a global name, a literal, len(name), or
\* float(name[index])
Name(n) == <<"name", n>>
Lit(v) == <<"lit", v>>
LenOf(n) == <<"len", n>>
FloatItem(n, i) == <<"float_item", n, i>>

\* the names an expression reads
Refs(e) == IF e[1] = "lit" THEN {} ELSE {e[2]}

\* the expression evaluates without raising
EvalOk(e) ==
    CASE e[1] = "lit" -> TRUE
      [] e[1] \in {"name", "len"} -> e[2] \in DOMAIN ns
      [] e[1] = "float_item" ->
            /\ e[2] \in DOMAIN ns
            /\ e[3] + 1 <= Len(ns[e[2]])
            /\ FloatOk(ns[e[2]][e[3] + 1])

Eval(e) ==
    CASE e[1] = "lit" -> e[2]
      [] e[1] = "name" -> ns[e[2]]
      [] e[1] = "len" -> Cardinality(DOMAIN ns[e[2]])
      [] e[1] = "float_item" -> Float(ns[e[2]][e[3] + 1])

LoadDatasetArgs ==
    [ local_path         |-> Name("DATA_PATH"),
      test_fraction      |-> Name("TEST_DATA_FRACTION"),
      random_seed        |-> Name("RANDOM_SEED"),
      train_sample_ratio |-> Name("TRAIN_SAMPLE_RATIO"),
      test_sample_ratio  |-> Name("TEST_SAMPLE_RATIO"),
      model_name         |-> Name("MODEL_NAME"),
      to_lower           |-> Name("DO_LOWER_CASE"),
      cache_dir          |-> Name("CACHE_DIR"),
      max_len            |-> Name("MAX_SEQ_LENGTH"),
      trailing_piece_tag |-> Name("TRAILING_PIECE_TAG"),
      batch_size         |-> Name("BATCH_SIZE"),
      num_gpus           |-> Lit("None") ]

TokenClassifierArgs_dataset_len ==
    [ model_name |-> Name("MODEL_NAME"),
      num_labels |-> LenOf("test_dataset"),
      cache_dir  |-> Name("CACHE_DIR") ]

TokenClassifierArgs ==
    [ model_name |-> Name("MODEL_NAME"),
      num_labels |-> LenOf("label_map"),
      cache_dir  |-> Name("CACHE_DIR") ]

FitArgs ==
    [ train_dataloader |-> Name("train_dataloader"),
      num_epochs       |-> Name("NUM_TRAIN_EPOCHS"),
      num_gpus         |-> Lit("None"),
      local_rank       |-> Lit(-1),
      weight_decay     |-> Lit("0.0"),
      learning_rate    |-> Lit("5e-5"),
      adam_epsilon     |-> Lit("1e-8"),
      warmup_steps     |-> Lit(0),
      verbose          |-> Lit(TRUE),
      seed             |-> Name("RANDOM_SEED") ]

PredictArgs ==
    [ test_dataloader |-> Name("test_dataloader"),
      num_gpus        |-> Lit("None"),
      verbose         |-> Lit(TRUE) ]

GetTrueTestLabelsArgs ==
    [ label_map |-> Name("label_map"),
      dataset   |-> Name("test_dataset") ]

GetPredictedTokenLabelsArgs ==
    [ predictions |-> Name("preds"),
      label_map   |-> Name("label_map"),
      dataset     |-> Name("test_dataset") ]

ClassificationReportArgs_true_twice ==
    [ y_true |-> Name("true_labels"),
      y_pred |-> Name("true_labels"),
      digits |-> Lit(2) ]

ClassificationReportArgs ==
    [ y_true |-> Name("true_labels"),
      y_pred |-> Name("predicted_labels"),
      digits |-> Lit(2) ]

GluePrecisionArgs == [ name |-> Lit("precision"), scrap |-> FloatItem("report_splits", 2) ]

GlueRecallArgs_copied_name ==
    [ name |-> Lit("precision"), scrap |-> FloatItem("report_splits", 3) ]

GlueRecallArgs == [ name |-> Lit("recall"), scrap |-> FloatItem("report_splits", 3) ]

GlueF1Args == [ name |-> Lit("f1"), scrap |-> FloatItem("report_splits", 4) ]

\* the keyword arguments of each external call of the notebook
Args(step) ==
    CASE step = "load_dataset" -> LoadDatasetArgs
      [] step = "TokenClassifier" -> TokenClassifierArgs
      [] step = "fit" -> FitArgs
      [] step = "predict" -> PredictArgs
      [] step = "get_true_test_labels" -> GetTrueTestLabelsArgs
      [] step = "get_predicted_token_labels" -> GetPredictedTokenLabelsArgs
      [] step = "classification_report" -> ClassificationReportArgs
      [] step = "glue_precision" -> GluePrecisionArgs
      [] step = "glue_recall" -> GlueRecallArgs
      [] step = "glue_f1" -> GlueF1Args

ArgsOk(step) == \A k \in DOMAIN Args(step) : EvalOk(Args(step)[k])

ArgValues(step) == [k \in DOMAIN Args(step) |-> Eval(Args(step)[k])]

\* the global each call goes through: a module, a class or the model object
Callee(step) ==
    CASE step = "load_dataset" -> "wikigold"
      [] step = "TokenClassifier" -> "TokenClassifier"
      [] step \in {"fit", "predict", "get_true_test_labels",
                   "get_predicted_token_labels"} -> "model"
      [] step = "classification_report" -> "classification_report"
      [] step \in {"glue_precision", "glue_recall", "glue_f1"} -> "sb"

\* the names a call statement reads: its callee and its argument expressions
ArgReads(step) ==
    {Callee(step)} \cup UNION {Refs(Args(step)[k]) : k \in DOMAIN Args(step)}

\* ------------------------------------------------------------- the notebook

\* the statements of the code cells, top to bottom
Order ==
    << "quick_run", "imports", "config",
       "load_dataset",
       "TokenClassifier", "fit", "print_training_time",
       "predict", "print_prediction_time",
       "get_true_test_labels",
       "get_predicted_token_labels", "classification_report", "print_report",
       "report_splits", "glue_precision", "glue_recall", "glue_f1" >>

\* the statement after `step`; after the last one the run is done
Successor(step) ==
    LET i == CHOOSE j \in 1..Len(Order) : Order[j] = step
    IN  IF i = Len(Order) THEN "done" ELSE Order[i + 1]

\* the names the import cell binds
ImportedNames ==
    { "sys", "os", "sb", "torch", "TemporaryDirectory", "wikigold", "Timer",
      "classification_report", "TokenClassifier" }

LoadDatasetTargets_over_config ==
    <<"train_dataloader", "test_dataloader", "label_map", "MODEL_NAME">>

\* the targets of the load_dataset assignment, in the order of the tuple
LoadDatasetTargets == <<"train_dataloader", "test_dataloader", "label_map", "test_dataset">>

Event(kind, step, reads, writes, result) ==
    [kind |-> kind, step |-> step, reads |-> reads, writes |-> writes, result |-> result]

Init ==
    /\ pc = "quick_run"
    /\ ns = [n \in {} |-> 0]
    /\ running = {}
    /\ events = <<>>
    /\ calls = [n \in {} |-> 0]
    /\ stdout = <<>>
    /\ scrapbook = <<>>
    /\ cuda \in BOOLEAN
    /\ failed_at = ""

AtStatement_async(step) == pc = step

\* the kernel may start a statement: it is the next one and no call is open
AtStatement(step) == pc = step /\ running = {}

\* a statement without an external call: it binds `bindings` and goes on
\* (what it prints is the caller's)
Exec(step, reads, bindings) ==
    /\ AtStatement(step)
    /\ ns' = bindings @@ ns
    /\ events' = Append(events, Event("exec", step, reads, DOMAIN bindings, <<>>))
    /\ pc' = Successor(step)
    /\ UNCHANGED <<running, calls, scrapbook, cuda, failed_at>>

\* the arguments are evaluated and the external call is entered
Call(step) ==
    /\ ArgsOk(step)
    /\ running' = running \cup {step}
    /\ calls' = (step :> ArgValues(step)) @@ calls
    /\ events' = Append(events, Event("call", step, ArgReads(step), {}, <<>>))
    /\ UNCHANGED <<pc, ns, stdout, scrapbook, cuda, failed_at>>

\* the call returns `result`, the statement binds `bindings`, of which
\* `targets` are the names it assigns (what it records is the caller's)
Return(step, targets, bindings, result) ==
    /\ step \in running
    /\ running' = running \ {step}
    /\ ns' = bindings @@ ns
    /\ events' = Append(events, Event("return", step, {}, targets, result))
    /\ pc' = Successor(step)
    /\ UNCHANGED <<calls, stdout, cuda, failed_at>>

Halt_swallowed(step) ==
    /\ pc' = Successor(step)
    /\ failed_at' = step
    /\ running' = running \ {step}
    /\ events' = Append(events, Event("raise", step, {}, {}, <<>>))
    /\ UNCHANGED <<ns, calls, stdout, scrapbook, cuda>>

\* an exception leaves the statement (the external call raised, or
\* evaluating the statement did): nothing catches it, the run halts
Halt(step) ==
    /\ pc' = "halted"
    /\ failed_at' = step
    /\ running' = running \ {step}
    /\ events' = Append(events, Event("raise", step, {}, {}, <<>>))
    /\ UNCHANGED <<ns, calls, stdout, scrapbook, cuda>>

NoBindings == [n \in {} |-> 0]

\* QUICK_RUN = False, or True when the reader follows the tip above the cell
QuickRunCell ==
    /\ \E quick_run \in BOOLEAN :
          Exec("quick_run", {}, [QUICK_RUN |-> quick_run])
    /\ UNCHANGED stdout

ImportsCell ==
    /\ Exec("imports", {}, [n \in ImportedNames |-> "imported"])
    /\ UNCHANGED stdout

ConfigCell ==
    /\ AtStatement("config")
    /\ Exec("config", {"QUICK_RUN", "TemporaryDirectory", "torch"},
            Configuration(ns["QUICK_RUN"], cuda, TmpNames[1], TmpNames[2]))
    /\ UNCHANGED stdout

LoadDatasetCall == AtStatement("load_dataset") /\ Call("load_dataset")

LoadDatasetReturn ==
    \E label_map \in LabelMaps :
        LET result == <<"train_dataloader", "test_dataloader", label_map, TestLabelIds>>
        IN  /\ Return("load_dataset", {LoadDatasetTargets[i] : i \in 1..4},
                      [n \in {LoadDatasetTargets[i] : i \in 1..4} |->
                          result[CHOOSE i \in 1..4 : LoadDatasetTargets[i] = n]],
                      result)
            /\ UNCHANGED scrapbook

LoadDatasetRaise == "load_dataset" \in running /\ Halt("load_dataset")

TokenClassifierCall == AtStatement("TokenClassifier") /\ Call("TokenClassifier")

TokenClassifierReturn ==
    LET model == [ model_name |-> calls["TokenClassifier"].model_name,
                   num_labels |-> calls["TokenClassifier"].num_labels,
                   epochs     |-> 0 ]
    IN  /\ Return("TokenClassifier", {"model"}, [model |-> model], model)
        /\ UNCHANGED scrapbook

TokenClassifierRaise == "TokenClassifier" \in running /\ Halt("TokenClassifier")

FitCall == AtStatement("fit") /\ Call("fit")

\* fit trains the model object in place; leaving the with block sets t
FitReturn ==
    /\ Return("fit", {"t"},
              [ model |-> [ns["model"] EXCEPT !.epochs = calls["fit"].num_epochs],
                t     |-> "Timer" ],
              "None")
    /\ UNCHANGED scrapbook

FitRaise == "fit" \in running /\ Halt("fit")

PrintTrainingTime ==
    /\ Exec("print_training_time", {"t"}, NoBindings)
    /\ stdout' = Append(stdout, <<"Training time">>)
PredictCall == AtStatement("predict") /\ Call("predict")

PredictReturn ==
    \E preds \in Predictions :
        /\ Return("predict", {"preds", "t"}, [preds |-> preds, t |-> "Timer"], preds)
        /\ UNCHANGED scrapbook

PredictRaise == "predict" \in running /\ Halt("predict")

PrintPredictionTime ==
    /\ Exec("print_prediction_time", {"t"}, NoBindings)
    /\ stdout' = Append(stdout, <<"Prediction time">>)

GetTrueTestLabelsCall == AtStatement("get_true_test_labels") /\ Call("get_true_test_labels")

GetTrueTestLabelsReturn ==
    LET a == calls["get_true_test_labels"]
        true_labels == Decode(a.label_map, a.dataset)
    IN  /\ Return("get_true_test_labels", {"true_labels"},
                  [true_labels |-> true_labels], true_labels)
        /\ UNCHANGED scrapbook

GetTrueTestLabelsRaise == "get_true_test_labels" \in running /\ Halt("get_true_test_labels")

GetPredictedTokenLabelsCall == AtStatement("get_predicted_token_labels") /\ Call("get_predicted_token_labels")

GetPredictedTokenLabelsReturn ==
    LET a == calls["get_predicted_token_labels"]
        predicted_labels == Decode(a.label_map, a.predictions)
    IN  /\ Return("get_predicted_token_labels", {"predicted_labels"},
                  [predicted_labels |-> predicted_labels], predicted_labels)
        /\ UNCHANGED scrapbook

GetPredictedTokenLabelsRaise == "get_predicted_token_labels" \in running /\ Halt("get_predicted_token_labels")

ClassificationReportCall == AtStatement("classification_report") /\ Call("classification_report")

ClassificationReportReturn ==
    \E report \in Reports :
        /\ Return("classification_report", {"report"}, [report |-> report], report)
        /\ UNCHANGED scrapbook

ClassificationReportRaise == "classification_report" \in running /\ Halt("classification_report")

PrintReport ==
    /\ Exec("print_report", {"report"}, NoBindings)
    /\ stdout' = Append(stdout, <<"report", ns["report"]>>)

\* report.split('\n')[-2] exists when the split has at least two pieces
ReportSplitsOk == Len(SplitOn(ns["report"], "\n")) >= 2

ReportSplitsValue_last_line ==
    LET pieces == SplitOn(ns["report"], "\n")
    IN  SplitWhitespace(pieces[Len(pieces)])

\* report.split('\n')[-2].split()
ReportSplitsValue ==
    LET pieces == SplitOn(ns["report"], "\n")
    IN  SplitWhitespace(pieces[Len(pieces) - 1])

ReportSplits ==
    /\ AtStatement("report_splits")
    /\ ReportSplitsOk
    /\ Exec("report_splits", {"report"}, [report_splits |-> ReportSplitsValue])
    /\ UNCHANGED stdout

\* IndexError: the report has no second-to-last line
ReportSplitsRaise ==
    /\ AtStatement("report_splits")
    /\ ~ReportSplitsOk
    /\ Halt("report_splits")

\* sb.glue(name, scrap) records the scrap under the name
Glue(step) ==
    Append(scrapbook, [name |-> calls[step].name, scrap |-> calls[step].scrap])

GluePrecisionCall == AtStatement("glue_precision") /\ Call("glue_precision")

\* IndexError or ValueError while the argument is evaluated
GluePrecisionArgRaise ==
    /\ AtStatement("glue_precision")
    /\ ~ArgsOk("glue_precision")
    /\ Halt("glue_precision")

GluePrecisionReturn ==
    /\ Return("glue_precision", {}, NoBindings, "None")
    /\ scrapbook' = Glue("glue_precision")

GluePrecisionRaise == "glue_precision" \in running /\ Halt("glue_precision")

GlueRecallCall == AtStatement("glue_recall") /\ Call("glue_recall")

\* IndexError or ValueError while the argument is evaluated
GlueRecallArgRaise ==
    /\ AtStatement("glue_recall")
    /\ ~ArgsOk("glue_recall")
    /\ Halt("glue_recall")

GlueRecallReturn ==
    /\ Return("glue_recall", {}, NoBindings, "None")
    /\ scrapbook' = Glue("glue_recall")

GlueRecallRaise == "glue_recall" \in running /\ Halt("glue_recall")

GlueF1Call == AtStatement("glue_f1") /\ Call("glue_f1")

\* IndexError or ValueError while the argument is evaluated
GlueF1ArgRaise ==
    /\ AtStatement("glue_f1")
    /\ ~ArgsOk("glue_f1")
    /\ Halt("glue_f1")

GlueF1Return ==
    /\ Return("glue_f1", {}, NoBindings, "None")
    /\ scrapbook' = Glue("glue_f1")

GlueF1Raise == "glue_f1" \in running /\ Halt("glue_f1")

Next ==
    \/ QuickRunCell
    \/ ImportsCell
    \/ ConfigCell
    \/ LoadDatasetCall
    \/ LoadDatasetReturn
    \/ LoadDatasetRaise
    \/ TokenClassifierCall
    \/ TokenClassifierReturn
    \/ TokenClassifierRaise
    \/ FitCall
    \/ FitReturn
    \/ FitRaise
    \/ PrintTrainingTime
    \/ PredictCall
    \/ PredictReturn
    \/ PredictRaise
    \/ PrintPredictionTime
    \/ GetTrueTestLabelsCall
    \/ GetTrueTestLabelsReturn
    \/ GetTrueTestLabelsRaise
    \/ GetPredictedTokenLabelsCall
    \/ GetPredictedTokenLabelsReturn
    \/ GetPredictedTokenLabelsRaise
    \/ ClassificationReportCall
    \/ ClassificationReportReturn
    \/ ClassificationReportRaise
    \/ PrintReport
    \/ ReportSplits
    \/ ReportSplitsRaise
    \/ GluePrecisionCall
    \/ GluePrecisionArgRaise
    \/ GluePrecisionReturn
    \/ GluePrecisionRaise
    \/ GlueRecallCall
    \/ GlueRecallArgRaise
    \/ GlueRecallReturn
    \/ GlueRecallRaise
    \/ GlueF1Call
    \/ GlueF1ArgRaise
    \/ GlueF1Return
    \/ GlueF1Raise

Spec == Init /\ [][Next]_vars

\* ------------------------------------------------------------- properties

\* the configuration cell has finished
Configured == pc \notin {"quick_run", "imports", "config"}

Called(step) == step \in DOMAIN calls

\* the events of one kind and step
EventsOf(kind, step) ==
    {i \in 1..Len(events) : events[i].kind = kind /\ events[i].step = step}

\* C1: after the configuration cell, QUICK_RUN true gives both sampling
\* ratios 0.1 and one epoch, QUICK_RUN false gives both ratios 1.0 and five
\* epochs, and these are the values load_dataset receives as
\* train_sample_ratio and test_sample_ratio and fit receives as num_epochs.
C1_QuickRunValues ==
    Configured =>
        LET ratio == IF ns["QUICK_RUN"] THEN Norm(1, 1) ELSE Norm(10, 1)
            epochs == IF ns["QUICK_RUN"] THEN 1 ELSE 5
        IN  /\ ns["TRAIN_SAMPLE_RATIO"] = ratio
            /\ ns["TEST_SAMPLE_RATIO"] = ratio
            /\ ns["NUM_TRAIN_EPOCHS"] = epochs
            /\ Called("load_dataset") =>
                  /\ calls["load_dataset"].train_sample_ratio = ratio
                  /\ calls["load_dataset"].test_sample_ratio = ratio
            /\ Called("fit") => calls["fit"].num_epochs = epochs

\* a quick run that has loaded its data and fitted its model
C1_Witness ==
    /\ Configured
    /\ ns["QUICK_RUN"]
    /\ EventsOf("return", "fit") # {}
    /\ ns["model"].epochs = 1

\* C3: once the configuration cell has finished, no later step changes the
\* value of any configuration name, QUICK_RUN included.
C3_ConfigurationImmutable ==
    [][Configured =>
          \A n \in ConfigNames : n \in DOMAIN ns' /\ ns'[n] = ns[n]]_vars

\* every later step has run and the configuration is still in place
C3_Witness ==
    /\ pc = "done"
    /\ ConfigNames \subseteq DOMAIN ns
    /\ Len(scrapbook) = 3

\* the configuration names the flag must leave alone
C9_Others ==
    { "TEST_DATA_FRACTION", "RANDOM_SEED", "MODEL_NAME", "DO_LOWER_CASE",
      "MAX_SEQ_LENGTH", "TRAILING_PIECE_TAG", "DEVICE", "BATCH_SIZE" }

\* C9: QUICK_RUN decides only TRAIN_SAMPLE_RATIO, TEST_SAMPLE_RATIO and
\* NUM_TRAIN_EPOCHS: with the flag flipped and the same GPU availability the
\* configuration cell gives the same value to every other configuration name
\* and a different value to those three, and a run that completes has
\* executed every statement of the notebook once, in order, whatever the flag.
C9_QuickRunFrame ==
    Configured =>
        LET flipped == Configuration(~ns["QUICK_RUN"], cuda, ns["DATA_PATH"], ns["CACHE_DIR"])
            started == SelectSeq(events, LAMBDA e : e.kind \in {"exec", "call"})
        IN  /\ \A n \in C9_Others : ns[n] = flipped[n]
            /\ \A n \in ConfigNames \ (C9_Others \cup {"QUICK_RUN", "DATA_PATH", "CACHE_DIR"}) :
                  ns[n] # flipped[n]
            /\ pc = "done" => [i \in 1..Len(started) |-> started[i].step] = Order

\* a completed full run on a machine with a GPU
C9_Witness ==
    /\ pc = "done"
    /\ ~ns["QUICK_RUN"]
    /\ cuda

\* C10: after the configuration cell BATCH_SIZE is 16 when CUDA is available
\* and 8 otherwise, whatever QUICK_RUN is, and load_dataset receives it as
\* batch_size; DEVICE is "cuda" either way and no statement reads it.
C10_BatchSizeAndDevice ==
    Configured =>
        /\ "BATCH_SIZE" \in DOMAIN ns
        /\ ns["BATCH_SIZE"] = (IF cuda THEN 16 ELSE 8)
        /\ Called("load_dataset") =>
              calls["load_dataset"].batch_size = (IF cuda THEN 16 ELSE 8)
        /\ ns["DEVICE"] = "cuda"
        /\ \A i \in 1..Len(events) : "DEVICE" \notin events[i].reads

\* load_dataset has been called in a quick run on a machine without a GPU
C10_Witness ==
    /\ Called("load_dataset")
    /\ ~cuda
    /\ ns["QUICK_RUN"]
    /\ calls["load_dataset"].batch_size = 8
\* the statements that are one external call each
CallSteps ==
    {Order[i] : i \in 1..Len(Order)} \
        { "quick_run", "imports", "config", "print_training_time",
          "print_prediction_time", "print_report", "report_splits" }

\* what a run without a failure logs: a call and a return for every external
\* call, one entry for every other statement, in the order of the cells
RECURSIVE Canonical(_)
Canonical(i) ==
    IF i > Len(Order) THEN <<>>
    ELSE (IF Order[i] \in CallSteps
          THEN << <<"call", Order[i]>>, <<"return", Order[i]>> >>
          ELSE << <<"exec", Order[i]>> >>) \o Canonical(i + 1)

\* C2: the steps run strictly in the order of the cells (load, construct,
\* fit, predict, label extraction, report, metrics): each starts only after
\* the one before it has returned, each runs at most once, and no two are in
\* progress together; a failure can only end the sequence.
C2_StrictlySequential ==
    LET canon == Canonical(1)
    IN  /\ Cardinality(running) <= 1
        /\ Len(events) <= Len(canon)
        /\ \A i \in 1..Len(events) :
              \/ <<events[i].kind, events[i].step>> = canon[i]
              \/ /\ i = Len(events)
                 /\ events[i].kind = "raise"
                 /\ events[i].step = canon[i][2]
        /\ \A s \in running :
              events # <<>> /\ events[Len(events)].kind = "call"
                  /\ events[Len(events)].step = s

\* predict is in progress, after fit has returned
C2_Witness ==
    /\ running = {"predict"}
    /\ EventsOf("return", "fit") # {}
    /\ EventsOf("return", "predict") = {}

\* C4: the label map load_dataset returned is the one bound to label_map in
\* every later state, the one whose size is num_labels of the TokenClassifier
\* and the one both get_true_test_labels and get_predicted_token_labels
\* receive.
C4_SameLabelMap ==
    \A i \in EventsOf("return", "load_dataset") :
        LET loaded == events[i].result[3]
        IN  /\ ns["label_map"] = loaded
            /\ Called("TokenClassifier") =>
                  calls["TokenClassifier"].num_labels = Cardinality(DOMAIN loaded)
            /\ Called("get_true_test_labels") =>
                  calls["get_true_test_labels"].label_map = loaded
            /\ Called("get_predicted_token_labels") =>
                  calls["get_predicted_token_labels"].label_map = loaded

\* both label extractions have run with a label map of three labels
C4_Witness ==
    /\ EventsOf("return", "get_predicted_token_labels") # {}
    /\ Called("get_true_test_labels")
    /\ Cardinality(DOMAIN ns["label_map"]) = 3
    /\ ns["model"].num_labels = 3

\* the report text has been printed
ReportPrinted ==
    \E i \in 1..Len(stdout) : stdout[i][1] = "report" /\ stdout[i][2] = ns["report"]

MetricNames == <<"precision", "recall", "f1">>

C6_FailureHalts ==
    /\ [](failed_at # "" =>
            /\ pc = "halted"
            /\ running = {}
            /\ events[Len(events)].kind = "raise"
            /\ events[Len(events)].step = failed_at
            /\ Cardinality({i \in 1..Len(events) : events[i].kind = "raise"}) = 1)
    /\ [](pc = "halted" => failed_at # "")
    /\ [][failed_at # "" =>
            /\ pc' = pc
            /\ events' = events
            /\ scrapbook' = scrapbook
            /\ ns' = ns
            /\ stdout' = stdout]_vars

\* sb.glue failed on recall, after precision had been recorded
C6_Witness ==
    /\ failed_at = "glue_recall"
    /\ Len(scrapbook) = 1
    /\ Called("glue_recall")

\* the events that read, and the events that assign, a name
Readers(n) == {i \in 1..Len(events) : n \in events[i].reads}

Writers(n) == {i \in 1..Len(events) : n \in events[i].writes}

\* C7: true_labels and predicted_labels are each assigned by one external
\* call returning after predict has returned, and each read by the one
\* classification_report call and by nothing else; the metrics cell reads
\* only the report and its split.
C7_LabelsConsumedOnce ==
    /\ \A n \in {"true_labels", "predicted_labels"} :
          /\ Cardinality(Writers(n)) <= 1
          /\ Cardinality(Readers(n)) <= 1
          /\ \A i \in Writers(n) :
                /\ events[i].kind = "return"
                /\ events[i].step =
                      (IF n = "true_labels" THEN "get_true_test_labels"
                       ELSE "get_predicted_token_labels")
                /\ \E j \in EventsOf("return", "predict") : j < i
          /\ \A i \in Readers(n) :
                events[i].kind = "call" /\ events[i].step = "classification_report"
          /\ Called("classification_report") => Cardinality(Readers(n)) = 1
    /\ \A i \in 1..Len(events) :
          /\ events[i].step = "report_splits" => events[i].reads \subseteq {"report"}
          /\ events[i].step \in {"glue_precision", "glue_recall", "glue_f1"} =>
                events[i].reads \subseteq {"sb", "report_splits"}

\* the metrics cell has run after the one report call consumed both sequences
C7_Witness ==
    /\ Len(scrapbook) = 3
    /\ Readers("true_labels") # {}
    /\ Readers("predicted_labels") # {}
    /\ ns["true_labels"] # ns["predicted_labels"]

\* the second-to-last piece of the report split on newline is the complete
\* row with this label and these metrics
PenultimateLineIs(label, m) ==
    LET pieces == SplitOn(ns["report"], "\n")
    IN  Len(pieces) >= 2 /\ pieces[Len(pieces) - 1] = FormatRow(label, m, 4)

\* C8: when the second-to-last line of the report is a row with a two-word
\* label followed by precision, recall, f1 and support, evaluating the
\* metrics never raises, and what is recorded as precision, recall and f1 is
\* that row's precision, recall and f1.
C8_MetricsOfPenultimateRow ==
    \A r \in ReportRows :
        ( /\ "report" \in DOMAIN ns
          /\ r[3] = 4
          /\ Len(SplitWhitespace(r[1])) = 2
          /\ PenultimateLineIs(r[1], r[2]) ) =>
            /\ pc = "report_splits" => ReportSplitsOk
            /\ (pc \in {"glue_precision", "glue_recall", "glue_f1"} /\ running = {})
                  => ArgsOk(pc)
            /\ failed_at # "report_splits"
            /\ \A k \in 1..Len(scrapbook) :
                  scrapbook[k] = [name |-> MetricNames[k], scrap |-> Norm(r[2][k], 2)]

\* all three metrics recorded from a report whose last line, not its
\* second-to-last, is another row
C8_Witness ==
    /\ Len(scrapbook) = 3
    /\ scrapbook[1].scrap = Norm(25, 2)
    /\ LET pieces == SplitOn(ns["report"], "\n")
       IN  /\ pieces[Len(pieces) - 1] = FormatRow(MacroAvg, <<25, 50, 75, 8>>, 4)
           /\ pieces[Len(pieces)] = FormatRow(MacroAvg, <<100, 0, 5, 12>>, 4)

====
